---- MODULE Spec2Model ----
(***************************************************************************)
(* Model of scripts/railway-setup.sh (the Setup Orchestrator).             *)
(*                                                                         *)
(* One session is one run of the script.  The script is a straight-line    *)
(* program under `set -e`; pc names the statement group that runs next and *)
(* exitCode is -1 while the session runs.  A session that has exited keeps *)
(* pc at the statement group that ended it ("Done" for the normal end).    *)
(*                                                                         *)
(* Text is modelled as sequences of tokens: a line of server/.env.example  *)
(* is a tuple such as <<"API_KEY", "=", "abc">> or <<" ", "#", "c">>, so   *)
(* the comment regex and the NODE_ENV=* / PORT=* globs are computed on the *)
(* text and not assumed.                                                   *)
(*                                                                         *)
(* What the file system looks like when a session starts is drawn in Init  *)
(* (logs/, .railway, server/.env.example); what a command reports the one  *)
(* time the script asks (node -v, git, npm list, du, the railway CLI, the  *)
(* operator's answers) is drawn where the script asks.                     *)
(*                                                                         *)
(* The Application Runtime is modelled next to it: server/index.js as the  *)
(* Express layer stack it registers, the connections of its listening      *)
(* socket and its two signal handlers; the client's App component as its   *)
(* three pieces of state and the invocations of handleTestServer.  The     *)
(* three parts do not talk to each other at run time, so each has its own  *)
(* specification and the variables of the other two stay as they start.    *)
(***************************************************************************)
EXTENDS Integers, Sequences, FiniteSets

\* Longest server/.env.example (in lines) the sessions are started with.
MaxLines == 2

\* Number of invocations of the script in one directory.
MaxRuns == 2

\* Connections the server's listening socket is offered.
MaxConns == 2

\* Requests the server answers in one life of the process.
MaxRequests == 3

\* Last instant of the server's clock.
MaxClock == 1

\* Termination signals delivered to the server process.
MaxSignals == 2

\* Invocations of the client's handleTestServer.
MaxCalls == 2

VARIABLES
    argv,        \* "$@" as given to this invocation
    rest,        \* "$@" as left by the shifts of the argument loop
    DRY_RUN,     \* line 23
    pc,          \* statement group that runs next / that ended the session
    exitCode,    \* -1 while running, else the exit status of the script
    fs,          \* the working directory
    start,       \* fs as it was when this invocation started
    ENV_VARS,    \* line 201
    idx,         \* position of the for loops of step 5
    DEPLOY_URL,  \* line 407; <<>> when unset or empty
    trace,       \* prompts shown and mutating / remote commands run so far
    last,        \* every external command the last statement group ran
    wrote,       \* lines the last statement group appended to the two logs
    TIMESTAMP,   \* line 17
    now,         \* wall clock, in seconds
    run,         \* number of this invocation in the directory
    prev         \* whether the previous invocation paused at a manual step

\* server/index.js
VARIABLES
    processEnv,  \* process.env.NODE_ENV
    srv,         \* "off", "listening", "closing" (server.close called), "exited"
    sockets,     \* connections of the listening socket
    res,         \* the response sent last
    stdout,      \* what the last step printed with console.log
    clock,       \* new Date()
    served,      \* number of requests answered so far
    signals,     \* SIGTERM / SIGINT delivered so far
    closeListeners, \* callbacks of server.close waiting for 'close'
    exitStatus   \* -1 while the process runs, else the status of process.exit

\* client, App component
VARIABLES
    response,    \* useState(null), line 4
    loading,     \* useState(false), line 5
    error,       \* useState(null), line 6
    calls        \* the invocations of handleTestServer

setupVars == <<argv, rest, DRY_RUN, pc, exitCode, fs, start, ENV_VARS, idx,
               DEPLOY_URL, trace, last, wrote, TIMESTAMP, now, run, prev>>

serverVars == <<processEnv, srv, sockets, res, stdout, clock, served,
                signals, closeListeners, exitStatus>>

clientVars == <<response, loading, error, calls>>

vars == <<setupVars, serverVars, clientVars>>

----------------------------------------------------------------------------
\* The Application Runtime before it is started

\* process.env.NODE_ENV when the variable is not in the environment
\* (undefined); the empty string is a value of its own.
Unset == "(undefined)"

Conns == 1..MaxConns

NoSocket == [state |-> "none", path |-> ""]

NoRes == [by |-> "none", path |-> "", status |-> 0, headers |-> {},
          body |-> <<>>, printed |-> <<>>]

\* The server process has not been started.
ServerOff ==
    /\ processEnv = Unset
    /\ srv = "off"
    /\ sockets = [c \in Conns |-> NoSocket]
    /\ res = NoRes
    /\ stdout = <<>>
    /\ clock = 0
    /\ served = 0
    /\ signals = 0
    /\ closeListeners = 0
    /\ exitStatus = -1

Calls == 1..MaxCalls

\* null of lines 4 and 6 is the empty sequence, a value v is <<v>>.
Null == <<>>

\* enabled: whether the button was enabled (line 40) when the handler ran.
NotCalled == [pc |-> "idle", fetches |-> 0, ends |-> 0, outcome |-> "none",
              status |-> 0, decoded |-> FALSE, value |-> Null,
              enabled |-> TRUE]

\* The component as mounted: lines 4-6, button not yet clicked.
ClientInit ==
    /\ response = Null
    /\ loading = FALSE
    /\ error = Null
    /\ calls = [i \in Calls |-> NotCalled]

----------------------------------------------------------------------------
\* Text

Space == {" "}

\* Lines a template may be made of.
Alphabet ==
    { <<>>,
      <<" ">>,
      <<" ", "#", "c">>,
      <<"garbage">>,
      <<"NODE_ENV", "=", "development">>,
      <<"API_KEY", "=", "abc">>,
      <<"API_KEY", "=", "xyz">>,
      <<"NO_CACHE", "=", "0">> }

SeqsUpTo(S, n) == UNION { [1..k -> S] : k \in 0..n }

\* A file is its newline-terminated lines plus the text after the last
\* newline (tail, <<>> when the file ends with a newline or is empty).
File(ls, t) == [exists |-> TRUE, lines |-> ls, tail |-> t]

Absent == [exists |-> FALSE, lines |-> <<>>, tail |-> <<>>]

Templates ==
    { File(ls, t) : ls \in SeqsUpTo(Alphabet, MaxLines), t \in Alphabet }

StartTemplates ==
    { f \in Templates :
        Len(f.lines) + (IF f.tail = <<>> THEN 0 ELSE 1) <= MaxLines }

\* The here-document without its PORT line.
DefaultTemplate_NoPort ==
    File(<< <<"#", " ", "Server Configuration">>,
            <<"NODE_ENV", "=", "production">>,
            <<>>,
            <<"#", " ", "Add your custom environment variables below">> >>,
         <<>>)

\* The here-document of lines 189-195.
DefaultTemplate ==
    File(<< <<"#", " ", "Server Configuration">>,
            <<"NODE_ENV", "=", "production">>,
            <<"PORT", "=", "3333">>,
            <<>>,
            <<"#", " ", "Add your custom environment variables below">> >>,
         <<>>)

\* [[ "$line" =~ ^[[:space:]]*# ]]
IsCommentLine(line) ==
    \E i \in 1..Len(line) :
        /\ line[i] = "#"
        /\ \A j \in 1..(i - 1) : line[j] \in Space

\* The condition of line 204.
Collected(line) == ~IsCommentLine(line) /\ line # <<>>

\* The while-read loop of lines 202-207: read succeeds once per
\* newline-terminated line; on the text after the last newline it fills
\* $line but fails, so the body does not run for it.
RECURSIVE ReadLoop(_, _)
ReadLoop(lines, acc) ==
    IF lines = <<>> THEN acc
    ELSE ReadLoop(Tail(lines),
                  IF Collected(Head(lines)) THEN Append(acc, Head(lines))
                  ELSE acc)

\* [[ "$var" == NAME=* ]]
HasPrefix(var, name) == Len(var) >= 2 /\ var[1] = name /\ var[2] = "="

\* The condition of line 284.
AlreadySet(var) == HasPrefix(var, "NODE_ENV") \/ HasPrefix(var, "PORT")

\* Lines 269-273.
REQUIRED_VARS ==
    << <<"NODE_ENV", "=", "production">>,
       <<"RAILPACK_PACKAGES", "=", "nodejs@22.13.0">>,
       <<"NO_CACHE", "=", "1">> >>

----------------------------------------------------------------------------
\* Logging (lines 39-58).  A chunk is what a run of log calls appends to
\* LOG_FILE (log) and to ERROR_LOG (err).

Line(sev, msg, arg) == [sev |-> sev, msg |-> msg, arg |-> arg]

Nothing == [log |-> <<>>, err |-> <<>>]

\* The log calls of a statement group, in order.
RECURSIVE JoinLog(_)
JoinLog(chunks) ==
    IF chunks = <<>> THEN <<>>
    ELSE Head(chunks).log \o JoinLog(Tail(chunks))

RECURSIVE JoinErr(_)
JoinErr(chunks) ==
    IF chunks = <<>> THEN <<>>
    ELSE Head(chunks).err \o JoinErr(Tail(chunks))

Join(chunks) == [log |-> JoinLog(chunks), err |-> JoinErr(chunks)]

log_info(msg, arg) == [log |-> <<Line("INFO", msg, arg)>>, err |-> <<>>]

log_success(msg, arg) == [log |-> <<Line("SUCCESS", msg, arg)>>, err |-> <<>>]

\* log_warning with the second tee of log_error.
log_warning_BothLogs(msg, arg) ==
    [log |-> <<Line("WARNING", msg, arg)>>,
     err |-> <<Line("WARNING", msg, arg)>>]

log_warning(msg, arg) == [log |-> <<Line("WARNING", msg, arg)>>, err |-> <<>>]

\* log_error without the second tee.
log_error_OneTee(msg, arg) ==
    [log |-> <<Line("ERROR", msg, arg)>>, err |-> <<>>]

log_error(msg, arg) ==
    [log |-> <<Line("ERROR", msg, arg)>>, err |-> <<Line("ERROR", msg, arg)>>]

log_step(msg) == [log |-> <<Line("STEP", msg, <<>>)>>, err |-> <<>>]

\* cmd >> "$LOG_FILE" 2>&1
Redirected(cmd) == [log |-> <<Line("OUTPUT", cmd, <<>>)>>, err |-> <<>>]

\* error_exit, lines 76-80 (the exit itself is in the calling action).
error_exit(msg) ==
    Join(<<log_error(msg, <<>>),
           log_error("Setup failed. Check logs at", <<>>)>>)

\* An external command, with its argument and whether it succeeded.
Cmd(cmd, arg, ok) == [cmd |-> cmd, arg |-> arg, ok |-> ok]

\* confirm that returns 0 whatever the reply is.
confirm_IgnoresReply(question, ans) ==
    IF DRY_RUN
    THEN [yes |-> TRUE,
          out |-> log_info("[DRY RUN] Would prompt", <<question>>),
          ran |-> <<>>]
    ELSE [yes |-> TRUE,
          out |-> Nothing,
          ran |-> <<Cmd("read", <<question>>, ans)>>]

\* confirm, lines 61-73: what it returns, logs and runs for answer ans.
confirm(question, ans) ==
    IF DRY_RUN
    THEN [yes |-> TRUE,
          out |-> log_info("[DRY RUN] Would prompt", <<question>>),
          ran |-> <<>>]
    ELSE [yes |-> ans,
          out |-> Nothing,
          ran |-> <<Cmd("read", <<question>>, ans)>>]

----------------------------------------------------------------------------
\* The working directory

\* tee -a / >> on the two log files of this session.
Logged(f, o) ==
    [f EXCEPT !.logFiles = IF o.log # <<>> THEN @ \cup {TIMESTAMP} ELSE @,
              !.errFiles = IF o.err # <<>> THEN @ \cup {TIMESTAMP} ELSE @]

\* [ -f ".railway" ] in place of [ -d ".railway" ]: false for a directory.
ExistingProject_FileTest(f) == FALSE

\* The test of line 140 and of line 84.
ExistingProject(f) == f.railway

Running == exitCode = -1

\* exit 1 of lines 34, 79, 338 and 353.
FatalExit == 1

\* exit 1 in place of exit 0 at the two manual steps.
PauseExit_Fatal == FatalExit

\* exit 0 of lines 324 and 390.
PauseExit == 0

\* Status with which set -e ends the script: that of the failed command
\* (tee that cannot open its file, a redirection that cannot open its file).
ErrexitStatus == 1

\* Commands that only read the local machine; every other command is a
\* prompt ("read"), changes the local machine or talks to a remote service.
ReadOnly ==
    {"node -v", "git rev-parse", "npm list", "du", "test -gt",
     "git remote get-url", "git branch"}

RemoteCmds ==
    {"railway whoami", "railway login", "railway init", "railway link",
     "railway variables --set", "railway variables --unset",
     "railway domain", "curl", "git ls-remote"}

LocalWrites ==
    {"npm install", "npm run init", "npm run build",
     "cat > server/.env.example", "cp -r .railway"}

RECURSIVE Effects(_)
Effects(cmds) ==
    IF cmds = <<>> THEN <<>>
    ELSE (IF Head(cmds).cmd \in ReadOnly THEN <<>>
          ELSE <<[cmd |-> Head(cmds).cmd, arg |-> Head(cmds).arg]>>)
         \o Effects(Tail(cmds))

\* One statement group: go to newpc (or exit with code), having appended o
\* to the logs, run the commands cmds and left the directory as f.
Step(newpc, code, o, cmds, f) ==
    /\ pc' = newpc
    /\ exitCode' = code
    /\ wrote' = o
    /\ trace' = trace \o Effects(cmds)
    /\ last' = cmds
    /\ fs' = Logged(f, o)
    /\ UNCHANGED <<serverVars, clientVars>>

session == <<argv, start, TIMESTAMP, now, run, prev>>

----------------------------------------------------------------------------
ArgLists ==
    { <<>>, <<"--dry-run">>, <<"--verbose">>,
      <<"--dry-run", "--verbose">>, <<"--verbose", "--dry-run">> }

StartDirs ==
    { [logsDir |-> l, railway |-> r, template |-> t,
       logFiles |-> {}, errFiles |-> {}, backups |-> {}] :
        l \in BOOLEAN, r \in BOOLEAN,
        t \in StartTemplates \cup {Absent, DefaultTemplate} }

Init ==
    /\ argv \in ArgLists
    /\ rest = argv
    /\ DRY_RUN = FALSE
    /\ pc = "ParseArgs"
    /\ exitCode = -1
    /\ fs \in StartDirs
    /\ start = fs
    /\ ENV_VARS = <<>>
    /\ idx = 1
    /\ DEPLOY_URL = <<>>
    /\ trace = <<>>
    /\ last = <<>>
    /\ wrote = Nothing
    /\ TIMESTAMP = 0
    /\ now = 0
    /\ run = 1
    /\ prev = FALSE
    /\ ServerOff
    /\ ClientInit

----------------------------------------------------------------------------
\* Lines 26-37, one iteration of the argument loop (or its end).
ParseArgs ==
    /\ Running /\ pc = "ParseArgs"
    /\ IF rest = <<>>
       THEN /\ Step("Banner", -1, Nothing, <<>>, fs)
            /\ UNCHANGED <<rest, DRY_RUN>>
       ELSE IF Head(rest) = "--dry-run"
       THEN /\ DRY_RUN' = TRUE
            /\ rest' = Tail(rest)
            /\ Step("ParseArgs", -1, Nothing, <<>>, fs)
       ELSE \* "Unknown option" goes to the terminal only; exit 1
            /\ Step("ParseArgs", FatalExit, Nothing, <<>>, fs)
            /\ UNCHANGED <<rest, DRY_RUN>>
    /\ UNCHANGED <<session, ENV_VARS, idx, DEPLOY_URL>>

\* Lines 97-105.  logs/ is created only at line 108: without it tee -a
\* cannot open LOG_FILE, the pipeline of log_warning fails and set -e ends
\* the script with tee's status.
Banner ==
    /\ Running /\ pc = "Banner"
    /\ IF DRY_RUN
       THEN IF fs.logsDir
            THEN Step("MkLogDir", -1,
                      log_warning("Running in DRY RUN mode", <<>>), <<>>, fs)
            ELSE Step("Banner", ErrexitStatus, Nothing, <<>>, fs)
       ELSE Step("MkLogDir", -1, Nothing, <<>>, fs)
    /\ UNCHANGED <<session, rest, DRY_RUN, ENV_VARS, idx, DEPLOY_URL>>

\* Line 108.
MkLogDir ==
    /\ Running /\ pc = "MkLogDir"
    /\ Step("Step1Node", -1, Nothing, <<>>, [fs EXCEPT !.logsDir = TRUE])
    /\ UNCHANGED <<session, rest, DRY_RUN, ENV_VARS, idx, DEPLOY_URL>>

\* Lines 110-129.
Step1Node ==
    /\ Running /\ pc = "Step1Node"
    /\ \E nvmrc \in {"none", "match", "mismatch"}, ans \in BOOLEAN :
        LET head == Join(<<log_step("Step 1: Prerequisites Check"),
                           log_info("Checking Node.js version...", <<>>)>>)
            c == confirm("Continue anyway?", ans)
            warn == Join(<<head,
                           log_warning("Node.js version mismatch!", <<>>),
                           log_warning("Required / Current", <<>>),
                           log_info("Consider using 'nvm use'", <<>>),
                           c.out>>)
            nodev == <<Cmd("node -v", <<>>, TRUE)>>
        IN  CASE nvmrc = "none" ->
                    Step("Step1Git", -1, head, <<>>, fs)
              [] nvmrc = "match" ->
                    Step("Step1Git", -1,
                         Join(<<head, log_success("Node.js version matches",
                                                  <<>>)>>),
                         nodev, fs)
              [] nvmrc = "mismatch" /\ c.yes ->
                    Step("Step1Git", -1, warn, nodev \o c.ran, fs)
              [] nvmrc = "mismatch" /\ ~c.yes ->
                    Step("Step1Node", FatalExit,
                         Join(<<warn, error_exit("Node.js version mismatch")>>),
                         nodev \o c.ran, fs)
    /\ UNCHANGED <<session, rest, DRY_RUN, ENV_VARS, idx, DEPLOY_URL>>

\* Lines 131-136.
Step1Git ==
    /\ Running /\ pc = "Step1Git"
    /\ \E ok \in BOOLEAN :
        LET head == log_info("Checking git repository...", <<>>)
            git == <<Cmd("git rev-parse", <<>>, ok)>>
        IN  IF ok
            THEN Step("Step1Project", -1,
                      Join(<<head, log_success("Git repository detected",
                                               <<>>)>>),
                      git, fs)
            ELSE Step("Step1Git", FatalExit,
                      Join(<<head, error_exit("Not a git repository")>>),
                      git, fs)
    /\ UNCHANGED <<session, rest, DRY_RUN, ENV_VARS, idx, DEPLOY_URL>>

\* Lines 138-143.
Step1Project ==
    /\ Running /\ pc = "Step1Project"
    /\ LET head == log_info("Checking for existing Railway project...", <<>>)
       IN  IF ExistingProject(fs)
           THEN Step("Step1Project", FatalExit,
                     Join(<<head,
                            error_exit("Railway project already exists!")>>),
                     <<>>, fs)
           ELSE Step("Step1Cli", -1,
                     Join(<<head,
                            log_success("No existing Railway project found",
                                        <<>>)>>),
                     <<>>, fs)
    /\ UNCHANGED <<session, rest, DRY_RUN, ENV_VARS, idx, DEPLOY_URL>>

\* Lines 145-161.
Step1Cli ==
    /\ Running /\ pc = "Step1Cli"
    /\ \E found \in BOOLEAN, ans \in BOOLEAN, ok \in BOOLEAN :
        LET head == log_info("Checking Railway CLI...", <<>>)
            list == <<Cmd("npm list", <<"@railway/cli">>, found)>>
            c == confirm("Install Railway CLI as dev dependency?", ans)
            ask == Join(<<head,
                          log_warning("Railway CLI not found", <<>>),
                          c.out>>)
            install == <<Cmd("npm install", <<"@railway/cli">>, ok)>>
        IN  CASE found ->
                    Step("Step1Deps", -1,
                         Join(<<head, log_success("Railway CLI found", <<>>)>>),
                         list, fs)
              [] ~found /\ ~c.yes ->
                    Step("Step1Cli", FatalExit,
                         Join(<<ask, error_exit("Railway CLI is required")>>),
                         list \o c.ran, fs)
              [] ~found /\ c.yes /\ DRY_RUN ->
                    Step("Step1Deps", -1,
                         Join(<<ask,
                                log_info("Installing @railway/cli...", <<>>),
                                log_success("Railway CLI installed", <<>>)>>),
                         list \o c.ran, fs)
              [] ~found /\ c.yes /\ ~DRY_RUN /\ ok ->
                    Step("Step1Deps", -1,
                         Join(<<ask,
                                log_info("Installing @railway/cli...", <<>>),
                                Redirected("npm install"),
                                log_success("Railway CLI installed", <<>>)>>),
                         list \o c.ran \o install, fs)
              [] ~found /\ c.yes /\ ~DRY_RUN /\ ~ok ->
                    Step("Step1Cli", FatalExit,
                         Join(<<ask,
                                log_info("Installing @railway/cli...", <<>>),
                                Redirected("npm install"),
                                error_exit("Failed to install Railway CLI")>>),
                         list \o c.ran \o install, fs)
    /\ UNCHANGED <<session, rest, DRY_RUN, ENV_VARS, idx, DEPLOY_URL>>

\* Lines 163-179.
Step1Deps ==
    /\ Running /\ pc = "Step1Deps"
    /\ \E found \in BOOLEAN, ans \in BOOLEAN, ok \in BOOLEAN :
        LET head == log_info("Checking npm dependencies...", <<>>)
            c == confirm("Run 'npm run init' to install dependencies?", ans)
            ask == Join(<<head,
                          log_warning("node_modules not found", <<>>),
                          c.out>>)
            install == <<Cmd("npm run init", <<>>, ok)>>
        IN  CASE found ->
                    Step("Step2Template", -1,
                         Join(<<head, log_success("Dependencies found", <<>>)>>),
                         <<>>, fs)
              [] ~found /\ ~c.yes ->
                    Step("Step1Deps", FatalExit,
                         Join(<<ask, error_exit("Dependencies are required")>>),
                         c.ran, fs)
              [] ~found /\ c.yes /\ DRY_RUN ->
                    Step("Step2Template", -1,
                         Join(<<ask,
                                log_info("Installing dependencies...", <<>>),
                                log_success("Dependencies installed", <<>>)>>),
                         c.ran, fs)
              [] ~found /\ c.yes /\ ~DRY_RUN /\ ok ->
                    Step("Step2Template", -1,
                         Join(<<ask,
                                log_info("Installing dependencies...", <<>>),
                                Redirected("npm run init"),
                                log_success("Dependencies installed", <<>>)>>),
                         c.ran \o install, fs)
              [] ~found /\ c.yes /\ ~DRY_RUN /\ ~ok ->
                    Step("Step1Deps", FatalExit,
                         Join(<<ask,
                                log_info("Installing dependencies...", <<>>),
                                Redirected("npm run init"),
                                error_exit("Failed to install dependencies")>>),
                         c.ran \o install, fs)
    /\ UNCHANGED <<session, rest, DRY_RUN, ENV_VARS, idx, DEPLOY_URL>>

\* Lines 181-198.
Step2Template ==
    /\ Running /\ pc = "Step2Template"
    /\ LET head == log_step("Step 2: Configuration Management")
           make == Join(<<head,
                          log_warning("server/.env.example not found", <<>>),
                          log_info("Creating default .env.example...", <<>>),
                          log_success("Created server/.env.example", <<>>)>>)
       IN  CASE fs.template.exists ->
                   Step("Step2Read", -1, head, <<>>, fs)
             [] ~fs.template.exists /\ DRY_RUN ->
                   Step("Step2Read", -1, make, <<>>, fs)
             [] ~fs.template.exists /\ ~DRY_RUN ->
                   Step("Step2Read", -1, make,
                        <<Cmd("cat > server/.env.example", <<>>, TRUE)>>,
                        [fs EXCEPT !.template = DefaultTemplate])
    /\ UNCHANGED <<session, rest, DRY_RUN, ENV_VARS, idx, DEPLOY_URL>>

\* ${#ENV_VARS[@]} as text.
Numeral(n) == IF n = 0 THEN "0" ELSE <<"1", "2", "3", "4", "5", "6">>[n]

\* Lines 200-209.  When the file is missing the redirection of line 207
\* fails, the while command returns 1 and set -e ends the script.
Step2Read ==
    /\ Running /\ pc = "Step2Read"
    /\ LET head == log_info("Reading environment variables from template",
                            <<>>)
           found == ReadLoop(fs.template.lines, <<>>)
       IN  IF fs.template.exists
           THEN /\ ENV_VARS' = found
                /\ Step("Step3Build", -1,
                        Join(<<head,
                               log_info("Found N environment variable(s) to set",
                                        <<Numeral(Len(found))>>)>>),
                        <<>>, fs)
           ELSE /\ ENV_VARS' = <<>>
                /\ Step("Step2Read", ErrexitStatus, head, <<>>, fs)
    /\ UNCHANGED <<session, rest, DRY_RUN, idx, DEPLOY_URL>>

\* Lines 211-218.
Step3Build ==
    /\ Running /\ pc = "Step3Build"
    /\ \E ok \in BOOLEAN :
        LET head == Join(<<log_step("Step 3: Pre-Deployment Validation"),
                           log_info("Testing local build...", <<>>)>>)
            build == <<Cmd("npm run build", <<>>, ok)>>
        IN  CASE DRY_RUN ->
                    Step("Step3Bundle", -1,
                         Join(<<head, log_success("Build test passed", <<>>)>>),
                         <<>>, fs)
              [] ~DRY_RUN /\ ok ->
                    Step("Step3Bundle", -1,
                         Join(<<head, Redirected("npm run build"),
                                log_success("Build test passed", <<>>)>>),
                         build, fs)
              [] ~DRY_RUN /\ ~ok ->
                    Step("Step3Build", FatalExit,
                         Join(<<head, Redirected("npm run build"),
                                error_exit("Build failed")>>),
                         build, fs)
    /\ UNCHANGED <<session, rest, DRY_RUN, ENV_VARS, idx, DEPLOY_URL>>

\* The threshold of line 227, in KB.
BundleLimitKB == 5120

\* Lines 220-234; kb is what du -sk reports for client/dist, -1 when the
\* directory does not exist.  The test of line 227 is recorded as a command
\* whose status says whether the size is over the threshold.
Step3Bundle ==
    /\ Running /\ pc = "Step3Bundle"
    /\ \E kb \in {-1, BundleLimitKB, BundleLimitKB + 1} :
        LET tailLines ==
                Join(<<log_info("Testing health endpoint locally (optional)...",
                                <<>>),
                       log_info("Skipping local health check", <<>>)>>)
            du == <<Cmd("du", <<"client/dist">>, TRUE),
                    Cmd("du", <<"client/dist">>, TRUE),
                    Cmd("test -gt", <<"BUNDLE_SIZE_KB">>,
                        kb > BundleLimitKB)>>
        IN  CASE kb = -1 ->
                    Step("Step4Backup", -1, tailLines, <<>>, fs)
              [] kb # -1 /\ kb > BundleLimitKB ->
                    Step("Step4Backup", -1,
                         Join(<<log_info("Client bundle size", <<>>),
                                log_warning("Bundle size is large (> 5MB)",
                                            <<>>),
                                tailLines>>),
                         du, fs)
              [] kb # -1 /\ ~(kb > BundleLimitKB) ->
                    Step("Step4Backup", -1,
                         Join(<<log_info("Client bundle size", <<>>),
                                tailLines>>),
                         du, fs)
    /\ UNCHANGED <<session, rest, DRY_RUN, ENV_VARS, idx, DEPLOY_URL>>

\* Lines 236-238 with backup_railway_config, lines 83-91.
Step4Backup ==
    /\ Running /\ pc = "Step4Backup"
    /\ LET head == log_step("Step 4: Railway Project Setup")
           note == Join(<<head,
                          log_info("Backing up existing Railway config",
                                   <<>>)>>)
       IN  CASE ~ExistingProject(fs) ->
                   Step("Step4Auth", -1, head, <<>>, fs)
             [] ExistingProject(fs) /\ DRY_RUN ->
                   Step("Step4Auth", -1, note, <<>>, fs)
             [] ExistingProject(fs) /\ ~DRY_RUN ->
                   Step("Step4Auth", -1, note,
                        <<Cmd("cp -r .railway", <<>>, TRUE)>>,
                        [fs EXCEPT !.backups = @ \cup {TIMESTAMP}])
    /\ UNCHANGED <<session, rest, DRY_RUN, ENV_VARS, idx, DEPLOY_URL>>

\* Lines 240-248.
Step4Auth ==
    /\ Running /\ pc = "Step4Auth"
    /\ \E who \in BOOLEAN, ok \in BOOLEAN :
        LET head == log_info("Checking Railway authentication...", <<>>)
            done == log_success("Railway authentication confirmed", <<>>)
            whoami == <<Cmd("railway whoami", <<>>, who)>>
            login == <<Cmd("railway login", <<>>, ok)>>
            opening == log_info("Not logged in to Railway. Opening login...",
                                <<>>)
        IN  CASE DRY_RUN ->
                    Step("Step4Init", -1, Join(<<head, done>>), <<>>, fs)
              [] ~DRY_RUN /\ who ->
                    Step("Step4Init", -1, Join(<<head, done>>), whoami, fs)
              [] ~DRY_RUN /\ ~who /\ ok ->
                    Step("Step4Init", -1, Join(<<head, opening, done>>),
                         whoami \o login, fs)
              [] ~DRY_RUN /\ ~who /\ ~ok ->
                    Step("Step4Auth", FatalExit,
                         Join(<<head, opening,
                                error_exit("Railway login failed")>>),
                         whoami \o login, fs)
    /\ UNCHANGED <<session, rest, DRY_RUN, ENV_VARS, idx, DEPLOY_URL>>

\* Step 4 whose railway init is not followed by || error_exit: the run goes
\* on to railway link whatever railway init returned.
Step4Init_NoExit ==
    /\ Running /\ pc = "Step4Init"
    /\ \E ok \in BOOLEAN :
        LET head == log_info("Creating new Railway project...", <<>>)
            done == log_success("Railway project created", <<>>)
            init == <<Cmd("railway init", <<>>, ok)>>
        IN  IF DRY_RUN
            THEN Step("Step4Link", -1, Join(<<head, done>>), <<>>, fs)
            ELSE Step("Step4Link", -1, Join(<<head, done>>), init, fs)
    /\ UNCHANGED <<session, rest, DRY_RUN, ENV_VARS, idx, DEPLOY_URL>>

\* Lines 250-255.
Step4Init ==
    /\ Running /\ pc = "Step4Init"
    /\ \E ok \in BOOLEAN :
        LET head == log_info("Creating new Railway project...", <<>>)
            done == log_success("Railway project created", <<>>)
            init == <<Cmd("railway init", <<>>, ok)>>
        IN  CASE DRY_RUN ->
                    Step("Step4Link", -1, Join(<<head, done>>), <<>>, fs)
              [] ~DRY_RUN /\ ok ->
                    Step("Step4Link", -1, Join(<<head, done>>), init, fs)
              [] ~DRY_RUN /\ ~ok ->
                    Step("Step4Init", FatalExit,
                         Join(<<head, error_exit("Railway init failed")>>),
                         init, fs)
    /\ UNCHANGED <<session, rest, DRY_RUN, ENV_VARS, idx, DEPLOY_URL>>

\* Where a successful railway link can leave the directory: the CLI keeps
\* the link either in a .railway directory of the project (the marker that
\* lines 84 and 140 test) or outside the project.
LinkedDirs(f) == {f, [f EXCEPT !.railway = TRUE]}

\* Lines 257-262.
Step4Link ==
    /\ Running /\ pc = "Step4Link"
    /\ \E ok \in BOOLEAN :
        LET head == log_info("Linking Railway project to current directory...",
                             <<>>)
            done == log_success("Railway project linked", <<>>)
            link == <<Cmd("railway link", <<>>, ok)>>
        IN  CASE DRY_RUN ->
                    Step("Step5Required", -1, Join(<<head, done>>), <<>>, fs)
              [] ~DRY_RUN /\ ok ->
                    \E f \in LinkedDirs(fs) :
                        Step("Step5Required", -1, Join(<<head, done>>),
                             link, f)
              [] ~DRY_RUN /\ ~ok ->
                    Step("Step4Link", FatalExit,
                         Join(<<head, error_exit("Railway link failed")>>),
                         link, fs)
    /\ UNCHANGED <<session, rest, DRY_RUN, ENV_VARS, idx, DEPLOY_URL>>

\* The loop body without its || log_warning branch.
SetVariable_NoWarning(text, var, ok) ==
    IF DRY_RUN
    THEN [out |-> log_info(text, var), ran |-> <<>>]
    ELSE [out |-> Join(<<log_info(text, var),
                         Redirected("railway variables --set")>>),
          ran |-> <<Cmd("railway variables --set", var, ok)>>]

\* The body of the loops of lines 275-280 and 283-292 for one variable.
SetVariable(text, var, ok) ==
    IF DRY_RUN
    THEN [out |-> log_info(text, var), ran |-> <<>>]
    ELSE [out |-> Join(<<log_info(text, var),
                         Redirected("railway variables --set"),
                         IF ok THEN Nothing
                         ELSE log_warning("Failed to set", var)>>),
          ran |-> <<Cmd("railway variables --set", var, ok)>>]

\* Lines 264-280, one iteration of the loop over REQUIRED_VARS.
Step5Required ==
    /\ Running /\ pc = "Step5Required"
    /\ \E ok \in BOOLEAN :
        LET head == IF idx = 1
                    THEN Join(<<log_step("Step 5: Environment Variables"),
                                log_info("Setting Railway environment variables",
                                         <<>>)>>)
                    ELSE Nothing
            s == SetVariable("Setting", REQUIRED_VARS[idx], ok)
        IN  /\ Step(IF idx = Len(REQUIRED_VARS) THEN "Step5Custom"
                    ELSE "Step5Required",
                    -1, Join(<<head, s.out>>), s.ran, fs)
            /\ idx' = IF idx = Len(REQUIRED_VARS) THEN 1 ELSE idx + 1
    /\ UNCHANGED <<session, rest, DRY_RUN, ENV_VARS, DEPLOY_URL>>

\* Lines 282-294, one iteration of the loop over ENV_VARS (or its end).
Step5Custom ==
    /\ Running /\ pc = "Step5Custom"
    /\ \E ok \in BOOLEAN :
        LET s == SetVariable("Setting custom variable", ENV_VARS[idx], ok)
        IN  CASE idx > Len(ENV_VARS) ->
                    /\ Step("Step6", -1,
                            log_success("Environment variables configured",
                                        <<>>),
                            <<>>, fs)
                    /\ idx' = 1
              [] idx <= Len(ENV_VARS) /\ AlreadySet(ENV_VARS[idx]) ->
                    /\ Step("Step5Custom", -1, Nothing, <<>>, fs)
                    /\ idx' = idx + 1
              [] idx <= Len(ENV_VARS) /\ ~AlreadySet(ENV_VARS[idx]) ->
                    /\ Step("Step5Custom", -1, s.out, s.ran, fs)
                    /\ idx' = idx + 1
    /\ UNCHANGED <<session, rest, DRY_RUN, ENV_VARS, DEPLOY_URL>>

\* Lines 296-325.
Step6 ==
    /\ Running /\ pc = "Step6"
    /\ \E ans \in BOOLEAN :
        LET c == confirm("Have you connected GitHub?", ans)
            head == Join(<<log_step("Step 6: Connect GitHub Repository"),
                           log_info("For detailed instructions, see the guide",
                                    <<>>),
                           c.out>>)
        IN  IF c.yes
            THEN Step("Step7Remote", -1, head, c.ran, fs)
            ELSE Step("Step6", PauseExit,
                      Join(<<head,
                             log_warning("Setup paused. Connect GitHub, then re-run.",
                                         <<>>),
                             log_info("Monitor deployment", <<>>)>>),
                      c.ran, fs)
    /\ UNCHANGED <<session, rest, DRY_RUN, ENV_VARS, idx, DEPLOY_URL>>

\* Step 7 whose remote check does not exit: the run goes on to the branch
\* check whether or not origin exists.
Step7Remote_NoCheck ==
    /\ Running /\ pc = "Step7Remote"
    /\ \E ok \in BOOLEAN :
        Step("Step7Branch", -1,
             Join(<<log_step("Step 7: Verify GitHub Connection"),
                    log_info("Checking GitHub remote...", <<>>),
                    log_success("GitHub remote found", <<>>)>>),
             <<Cmd("git remote get-url", <<"origin">>, ok)>>, fs)
    /\ UNCHANGED <<session, rest, DRY_RUN, ENV_VARS, idx, DEPLOY_URL>>

\* Lines 327-342.
Step7Remote ==
    /\ Running /\ pc = "Step7Remote"
    /\ \E ok \in BOOLEAN :
        LET head == Join(<<log_step("Step 7: Verify GitHub Connection"),
                           log_info("Checking GitHub remote...", <<>>)>>)
            geturl == <<Cmd("git remote get-url", <<"origin">>, ok)>>
        IN  IF ok
            THEN Step("Step7Branch", -1,
                      Join(<<head, log_success("GitHub remote found", <<>>)>>),
                      geturl \o geturl, fs)
            ELSE Step("Step7Remote", FatalExit,
                      Join(<<head,
                             log_warning("No GitHub remote found", <<>>),
                             log_error("GitHub remote is required", <<>>),
                             log_info("Add a GitHub remote:", <<>>),
                             log_info("git remote add origin", <<>>),
                             log_info("git push -u origin main", <<>>),
                             log_info("Then re-run this script", <<>>)>>),
                      geturl, fs)
    /\ UNCHANGED <<session, rest, DRY_RUN, ENV_VARS, idx, DEPLOY_URL>>

\* Step 7 without the exit of its else branch: the run goes on to step 8
\* whether or not the branch is on the remote.
Step7Branch_NoCheck ==
    /\ Running /\ pc = "Step7Branch"
    /\ \E ok \in BOOLEAN :
        Step("Step8", -1,
             Join(<<log_info("Current branch", <<>>),
                    log_success("Code is pushed to GitHub", <<>>)>>),
             <<Cmd("git branch", <<"--show-current">>, TRUE),
               Cmd("git ls-remote", <<"origin">>, ok)>>,
             fs)
    /\ UNCHANGED <<session, rest, DRY_RUN, ENV_VARS, idx, DEPLOY_URL>>

\* Lines 344-356.
Step7Branch ==
    /\ Running /\ pc = "Step7Branch"
    /\ \E ok \in BOOLEAN :
        LET head == log_info("Current branch", <<>>)
            cmds == <<Cmd("git branch", <<"--show-current">>, TRUE),
                      Cmd("git ls-remote", <<"origin">>, ok)>>
        IN  IF ok
            THEN Step("Step8", -1,
                      Join(<<head,
                             log_success("Code is pushed to GitHub", <<>>)>>),
                      cmds, fs)
            ELSE Step("Step7Branch", FatalExit,
                      Join(<<head,
                             log_error("Current branch not pushed to GitHub",
                                       <<>>),
                             log_info("Railway needs your code on GitHub",
                                      <<>>),
                             log_info("Push your code: git push -u origin",
                                      <<>>),
                             log_info("Then connect the repository (Step 6)",
                                      <<>>)>>),
                      cmds, fs)
    /\ UNCHANGED <<session, rest, DRY_RUN, ENV_VARS, idx, DEPLOY_URL>>

\* Lines 358-391.
Step8 ==
    /\ Running /\ pc = "Step8"
    /\ \E ans \in BOOLEAN :
        LET c == confirm("Have you enabled public networking?", ans)
            head == Join(<<log_step("Step 8: Enable Public Networking"),
                           c.out>>)
        IN  IF c.yes
            THEN Step("Step10", -1, head, c.ran, fs)
            ELSE Step("Step8", PauseExit,
                      Join(<<head,
                             log_warning("Enable public networking to continue.",
                                         <<>>),
                             log_info("Your deployment will fail with SIGTERM",
                                      <<>>),
                             log_info("After enabling, monitor logs", <<>>)>>),
                      c.ran, fs)
    /\ UNCHANGED <<session, rest, DRY_RUN, ENV_VARS, idx, DEPLOY_URL>>

\* What railway domain | grep -o 'https://...' | head -1 can leave in
\* DEPLOY_URL.
Urls == {<<>>, <<"https://app.up.railway.app">>}

\* Lines 393-426.
Step10 ==
    /\ Running /\ pc = "Step10"
    /\ \E url \in Urls, healthy \in BOOLEAN :
        LET head == Join(<<log_step("Step 9: Deployment Verification"),
                           log_info("Checking deployment status...", <<>>),
                           log_info("Railway has deployed your service",
                                    <<>>),
                           log_step("Step 10: Get Deployment URL"),
                           log_info("Retrieving deployment URL...", <<>>)>>)
            domain == <<Cmd("railway domain", <<>>, url # <<>>)>>
            curl == <<Cmd("curl", url \o <<"/health">>, healthy)>>
            probe == Join(<<head,
                            log_success("Deployment URL", url),
                            log_info("Testing health endpoint...", <<>>)>>)
        IN  CASE DRY_RUN ->
                    /\ Step("Step11", -1, head, <<>>, fs)
                    /\ UNCHANGED DEPLOY_URL
              [] ~DRY_RUN /\ url = <<>> ->
                    /\ Step("Step11", -1,
                            Join(<<head,
                                   log_warning("Could not retrieve deployment URL",
                                               <<>>),
                                   log_info("Check Railway Dashboard", <<>>)>>),
                            domain, fs)
                    /\ DEPLOY_URL' = url
              [] ~DRY_RUN /\ url # <<>> /\ healthy ->
                    /\ Step("Step11", -1,
                            Join(<<probe,
                                   log_success("Health check passed!", <<>>)>>),
                            domain \o curl, fs)
                    /\ DEPLOY_URL' = url
              [] ~DRY_RUN /\ url # <<>> /\ ~healthy ->
                    /\ Step("Step11", -1,
                            Join(<<probe,
                                   log_warning("Health check failed.", <<>>),
                                   log_info("Check manually: curl", url)>>),
                            domain \o curl, fs)
                    /\ DEPLOY_URL' = url
    /\ UNCHANGED <<session, rest, DRY_RUN, ENV_VARS, idx>>

\* Lines 428-469.
Step11 ==
    /\ Running /\ pc = "Step11"
    /\ \E ok \in BOOLEAN :
        LET head == Join(<<log_step("Step 11: Cleanup"),
                           log_info("Removing NO_CACHE environment variable...",
                                    <<>>)>>)
            done == Join(<<log_success("NO_CACHE removed", <<>>),
                           log_step("Setup Complete!"),
                           log_success("Setup completed at", <<>>)>>)
            unset == <<Cmd("railway variables --unset", <<"NO_CACHE">>, ok)>>
        IN  CASE DRY_RUN ->
                    Step("Done", 0, Join(<<head, done>>), <<>>, fs)
              [] ~DRY_RUN /\ ok ->
                    Step("Done", 0,
                         Join(<<head, Redirected("railway variables --unset"),
                                done>>),
                         unset, fs)
              [] ~DRY_RUN /\ ~ok ->
                    Step("Done", 0,
                         Join(<<head, Redirected("railway variables --unset"),
                                log_warning("Could not remove NO_CACHE", <<>>),
                                done>>),
                         unset, fs)
    /\ UNCHANGED <<session, rest, DRY_RUN, ENV_VARS, idx, DEPLOY_URL>>

\* Whether a finished session stopped at one of the two manual steps after
\* it had set the project up for real.
Paused == exitCode = 0 /\ pc \in {"Step6", "Step8"} /\ ~DRY_RUN

\* The operator runs the script again in the same directory: nothing but
\* the directory is carried over, and the clock may or may not have reached
\* the next second.
Rerun ==
    /\ ~Running
    /\ run < MaxRuns
    /\ run' = run + 1
    /\ prev' = Paused
    /\ now' \in {now, now + 1}
    /\ TIMESTAMP' = now'
    /\ argv' \in ArgLists
    /\ rest' = argv'
    /\ DRY_RUN' = FALSE
    /\ pc' = "ParseArgs"
    /\ exitCode' = -1
    /\ start' = fs
    /\ ENV_VARS' = <<>>
    /\ idx' = 1
    /\ DEPLOY_URL' = <<>>
    /\ trace' = <<>>
    /\ last' = <<>>
    /\ wrote' = Nothing
    /\ UNCHANGED <<fs, serverVars, clientVars>>

Session ==
    \/ ParseArgs \/ Banner \/ MkLogDir
    \/ Step1Node \/ Step1Git \/ Step1Project \/ Step1Cli \/ Step1Deps
    \/ Step2Template \/ Step2Read
    \/ Step3Build \/ Step3Bundle
    \/ Step4Backup \/ Step4Auth \/ Step4Init \/ Step4Link
    \/ Step5Required \/ Step5Custom
    \/ Step6 \/ Step7Remote \/ Step7Branch \/ Step8
    \/ Step10 \/ Step11

Next == Session

Spec == Init /\ [][Next]_vars

\* Repeated invocations, started in a checkout that has the repository's
\* own template or none.
InitRerun == Init /\ fs.template \in {Absent, DefaultTemplate}

NextRerun == Session \/ Rerun

SpecRerun == InitRerun /\ [][NextRerun]_vars

----------------------------------------------------------------------------
\* The Setup Orchestrator as the runtime sees it: it ran once, out of band.
SetupIdle ==
    /\ argv = <<>> /\ rest = <<>> /\ DRY_RUN = FALSE
    /\ pc = "Done" /\ exitCode = 0
    /\ fs = [logsDir |-> TRUE, railway |-> TRUE, template |-> DefaultTemplate,
             logFiles |-> {0}, errFiles |-> {}, backups |-> {}]
    /\ start = fs
    /\ ENV_VARS = <<>> /\ idx = 1 /\ DEPLOY_URL = <<>>
    /\ trace = <<>> /\ last = <<>> /\ wrote = Nothing
    /\ TIMESTAMP = 0 /\ now = 0 /\ run = 1 /\ prev = FALSE

----------------------------------------------------------------------------
\* server/index.js
\*
\* Requests are GET requests without a body, on the paths below: the three
\* middlewares of lines 16-25 pass such a request on (compression and the
\* JSON parser leave it alone, cors adds its header).  client/dist is the
\* output of the client build and holds index.html.

EnvValues ==
    {Unset, "", "development", "production", "Production", "staging"}

\* Line 13: undefined and the empty string are falsy.
NODE_ENV == IF processEnv \in {Unset, ""} THEN "development" ELSE processEnv

\* new Date().toISOString() at instant t.
toISOString(t) == [format |-> "YYYY-MM-DDTHH:mm:ss.sssZ", instant |-> t]

\* Files of client/dist, by URL path; one of them is named like the health
\* route.
DistFiles == {"/index.html", "/assets/app.js", "/health"}

Paths == {"/health", "/api/hello", "/", "/assets/app.js", "/dashboard"}

\* The layers with express.static and the catch-all registered whatever
\* NODE_ENV is.
Stack_AnyEnv ==
    <<"compression", "cors", "express.json", "GET /health", "GET /api/hello",
      "express.static", "GET *">>

\* The layers in the order lines 16-62 register them.
Stack ==
    <<"compression", "cors", "express.json", "GET /health", "GET /api/hello">>
    \o (IF NODE_ENV = "production" THEN <<"express.static", "GET *">>
        ELSE <<>>)

Reply(by, path, status, headers, body, printed) ==
    [by |-> by, path |-> path, status |-> status, headers |-> headers,
     body |-> body, printed |-> printed]

\* The handler with env taken from process.env and not from line 13.
health_RawEnv(path, t, headers) ==
    Reply("health", path, 200, headers,
          [status |-> "ok", timestamp |-> toISOString(t), env |-> processEnv],
          <<>>)

\* Lines 28-34.
health(path, t, headers) ==
    Reply("health", path, 200, headers,
          [status |-> "ok", timestamp |-> toISOString(t), env |-> NODE_ENV],
          <<>>)

\* The handler without line 44.
hello_NoCacheHeader(path, t, headers) ==
    Reply("hello", path, 200, headers,
          [message |-> "Hello from server!", timestamp |-> toISOString(t)],
          << [text |-> "[API] /api/hello endpoint hit at",
              timestamp |-> toISOString(t)] >>)

\* Lines 37-51.
hello(path, t, headers) ==
    Reply("hello", path, 200,
          headers \cup {<<"Cache-Control", "public, max-age=300">>},
          [message |-> "Hello from server!", timestamp |-> toISOString(t)],
          << [text |-> "[API] /api/hello endpoint hit at",
              timestamp |-> toISOString(t)] >>)

\* express.static serves index.html for the directory itself.
StaticFile(path) == IF path = "/" THEN "/index.html" ELSE path

\* One request through the layers: a middleware or a route that does not
\* match calls next(); when no layer answers Express replies 404.
RECURSIVE Dispatch(_, _, _, _)
Dispatch(stack, path, t, headers) ==
    IF stack = <<>>
    THEN Reply("finalhandler", path, 404, headers,
               [file |-> "Cannot GET"], <<>>)
    ELSE LET layer == Head(stack)
             next == Dispatch(Tail(stack), path, t, headers)
         IN  CASE layer = "cors" ->
                    Dispatch(Tail(stack), path, t,
                             headers \cup
                             {<<"Access-Control-Allow-Origin", "*">>})
               [] layer \in {"compression", "express.json"} -> next
               [] layer = "GET /health" ->
                    IF path = "/health" THEN health(path, t, headers)
                    ELSE next
               [] layer = "GET /api/hello" ->
                    IF path = "/api/hello" THEN hello(path, t, headers)
                    ELSE next
               [] layer = "express.static" ->
                    IF StaticFile(path) \in DistFiles
                    THEN Reply("express.static", path, 200, headers,
                               [file |-> StaticFile(path)], <<>>)
                    ELSE next
               [] layer = "GET *" ->
                    Reply("sendFile", path, 200, headers,
                          [file |-> "/index.html"], <<>>)

Alive == exitStatus = -1 /\ srv \in {"listening", "closing"}

Open(c) == sockets[c].state \in {"idle", "active"}

\* 'close' fires although connections are open.
Drained_Always == TRUE

\* net.Server emits 'close' once the listening handle is closed and no
\* connection is left.
Drained == \A c \in Conns : ~Open(c)

\* The listening socket of line 65 accepts a connection.
Accept(c) ==
    /\ Alive /\ srv = "listening"
    /\ sockets[c].state = "none"
    /\ sockets' = [sockets EXCEPT ![c] = [state |-> "idle", path |-> ""]]
    /\ stdout' = <<>>
    /\ UNCHANGED <<processEnv, srv, res, clock, served, signals,
                   closeListeners, exitStatus>>
    /\ UNCHANGED <<setupVars, clientVars>>

\* A request arrives on an open connection (the first one, or the next one
\* of a kept-alive connection).
Receive(c, path) ==
    /\ Alive
    /\ sockets[c].state = "idle"
    /\ served + Cardinality({d \in Conns : sockets[d].state = "active"})
         < MaxRequests
    /\ sockets' = [sockets EXCEPT ![c] = [state |-> "active", path |-> path]]
    /\ stdout' = <<>>
    /\ UNCHANGED <<processEnv, srv, res, clock, served, signals,
                   closeListeners, exitStatus>>
    /\ UNCHANGED <<setupVars, clientVars>>

\* The app answers the request of connection c; the connection is then
\* kept alive or closed.
Respond(c) ==
    /\ Alive
    /\ sockets[c].state = "active"
    /\ LET r == Dispatch(Stack, sockets[c].path, clock, {})
       IN  /\ res' = r
           /\ stdout' = r.printed
    /\ served' = served + 1
    /\ \E after \in {"idle", "closed"} :
         sockets' = [sockets EXCEPT ![c] = [state |-> after, path |-> ""]]
    /\ UNCHANGED <<processEnv, srv, clock, signals, closeListeners,
                   exitStatus>>
    /\ UNCHANGED <<setupVars, clientVars>>

\* The client closes an idle connection, or its keep-alive timeout ends it.
Disconnect(c) ==
    /\ Alive
    /\ sockets[c].state = "idle"
    /\ sockets' = [sockets EXCEPT ![c] = [state |-> "closed", path |-> ""]]
    /\ stdout' = <<>>
    /\ UNCHANGED <<processEnv, srv, res, clock, served, signals,
                   closeListeners, exitStatus>>
    /\ UNCHANGED <<setupVars, clientVars>>

\* A handler that gives up on the second signal and exits at once.
Signal_SecondKills(sig) ==
    /\ Alive
    /\ signals < MaxSignals
    /\ signals' = signals + 1
    /\ stdout' = << [text |-> sig, timestamp |-> toISOString(clock)] >>
    /\ srv' = IF signals > 0 THEN "exited" ELSE "closing"
    /\ exitStatus' = IF signals > 0 THEN 0 ELSE exitStatus
    /\ closeListeners' = closeListeners + 1
    /\ sockets' = [c \in Conns |->
                     IF sockets[c].state = "idle"
                     THEN [state |-> "closed", path |-> ""]
                     ELSE sockets[c]]
    /\ UNCHANGED <<processEnv, res, clock, served>>
    /\ UNCHANGED <<setupVars, clientVars>>

\* Lines 72-86: the handler prints and calls server.close(callback), which
\* closes the listening handle, ends the idle connections and registers
\* the callback for 'close' (also when the server is already closing).
Signal(sig) ==
    /\ Alive
    /\ signals < MaxSignals
    /\ signals' = signals + 1
    /\ stdout' = << [text |-> sig, timestamp |-> toISOString(clock)] >>
    /\ srv' = "closing"
    /\ closeListeners' = closeListeners + 1
    /\ sockets' = [c \in Conns |->
                     IF sockets[c].state = "idle"
                     THEN [state |-> "closed", path |-> ""]
                     ELSE sockets[c]]
    /\ UNCHANGED <<processEnv, res, clock, served, exitStatus>>
    /\ UNCHANGED <<setupVars, clientVars>>

\* 'close': the first registered callback prints and calls process.exit(0).
ServerClosed ==
    /\ Alive /\ srv = "closing"
    /\ closeListeners > 0
    /\ Drained
    /\ stdout' = << [text |-> "Server closed",
                     timestamp |-> toISOString(clock)] >>
    /\ srv' = "exited"
    /\ exitStatus' = 0
    /\ closeListeners' = 0
    /\ UNCHANGED <<processEnv, sockets, res, clock, served, signals>>
    /\ UNCHANGED <<setupVars, clientVars>>

Tick ==
    /\ Alive
    /\ clock < MaxClock
    /\ clock' = clock + 1
    /\ stdout' = <<>>
    /\ UNCHANGED <<processEnv, srv, sockets, res, served, signals,
                   closeListeners, exitStatus>>
    /\ UNCHANGED <<setupVars, clientVars>>

\* The process after line 69: listening, the three lines of the listen
\* callback printed.
InitServer ==
    /\ SetupIdle
    /\ ClientInit
    /\ processEnv \in EnvValues
    /\ srv = "listening"
    /\ sockets = [c \in Conns |-> NoSocket]
    /\ res = NoRes
    /\ stdout = << [text |-> "Ready to accept connections",
                    timestamp |-> toISOString(0)] >>
    /\ clock = 0
    /\ served = 0
    /\ signals = 0
    /\ closeListeners = 0
    /\ exitStatus = -1

NextServer ==
    \/ \E c \in Conns : Accept(c)
    \/ \E c \in Conns, path \in Paths : Receive(c, path)
    \/ \E c \in Conns : Respond(c)
    \/ \E c \in Conns : Disconnect(c)
    \/ \E sig \in {"SIGTERM", "SIGINT"} : Signal(sig)
    \/ ServerClosed
    \/ Tick

SpecServer == InitServer /\ [][NextServer]_vars

\* The shutdown path reads nothing of the environment: the process is
\* started without NODE_ENV or in production.
InitServerFair == InitServer /\ processEnv \in {Unset, "production"}

\* The event loop delivers 'close' once the server is closing and the last
\* connection has ended; nothing makes a client finish or hang up.
SpecServerFair ==
    InitServerFair /\ [][NextServer]_vars /\ WF_vars(ServerClosed)

----------------------------------------------------------------------------
\* client, App component (handleTestServer, lines 8-31)
\*
\* An invocation stops at its two awaits; what the network then delivers is
\* drawn where the await resumes.

\* Status codes fetch may resolve with.
Statuses == {200, 201, 404, 500}

\* What await fetch('/api/hello') does: reject (network error), or resolve
\* with a response of some status.
FetchResults ==
    {[kind |-> "reject", status |-> 0]}
    \cup { [kind |-> "response", status |-> st] : st \in Statuses }

\* Bodies that decode, as res.json() returns them.
Payloads ==
    { [message |-> "Hello from server!", timestamp |-> toISOString(t)] :
        t \in 0..1 }

\* res.ok without its bounds.
res_ok_AnyStatus(status) == TRUE

\* res.ok, line 15.
res_ok(status) == status >= 200 /\ status <= 299

\* err.message of the three errors the try block can throw.
FailedToFetch == <<"Failed to fetch">>

HttpError(status) == <<"HTTP error! status:", status>>

SyntaxError == <<"Unexpected token in JSON">>

\* A handler that also resets the response when it starts.
Invoke_ClearsResponse(i) ==
    /\ calls[i].pc = "idle"
    /\ \A j \in Calls : j < i => calls[j].pc # "idle"
    /\ loading' = TRUE
    /\ error' = Null
    /\ response' = Null
    /\ calls' = [calls EXCEPT ![i].pc = "fetch", ![i].fetches = @ + 1,
                              ![i].enabled = ~loading]
    /\ UNCHANGED <<setupVars, serverVars>>

\* Lines 9-13: the synchronous part of an invocation, up to the first await.
Invoke(i) ==
    /\ calls[i].pc = "idle"
    /\ \A j \in Calls : j < i => calls[j].pc # "idle"
    /\ loading' = TRUE
    /\ error' = Null
    /\ calls' = [calls EXCEPT ![i].pc = "fetch", ![i].fetches = @ + 1,
                              ![i].enabled = ~loading]
    /\ UNCHANGED response
    /\ UNCHANGED <<setupVars, serverVars>>

\* Lines 38-40: the button runs the handler unless it is disabled.
Click(i) == ~loading /\ Invoke(i)

\* catch without the finally block.
Fail_KeepsLoading(i, status, msg) ==
    /\ error' = <<msg>>
    /\ calls' = [calls EXCEPT ![i].pc = "done", ![i].ends = @ + 1,
                              ![i].outcome = "failure",
                              ![i].status = status, ![i].value = <<msg>>]
    /\ UNCHANGED <<response, loading>>

\* Lines 25-30: catch, then finally.
Fail(i, status, msg) ==
    /\ error' = <<msg>>
    /\ loading' = FALSE
    /\ calls' = [calls EXCEPT ![i].pc = "done", ![i].ends = @ + 1,
                              ![i].outcome = "failure",
                              ![i].status = status, ![i].value = <<msg>>]
    /\ UNCHANGED response

\* Lines 13-17: fetch settles.
FetchSettles(i) ==
    /\ calls[i].pc = "fetch"
    /\ \E r \in FetchResults :
         CASE r.kind = "reject" -> Fail(i, 0, FailedToFetch)
           [] r.kind = "response" /\ ~res_ok(r.status) ->
                Fail(i, r.status, HttpError(r.status))
           [] r.kind = "response" /\ res_ok(r.status) ->
                /\ calls' = [calls EXCEPT ![i].pc = "json",
                                          ![i].status = r.status]
                /\ UNCHANGED <<response, loading, error>>
    /\ UNCHANGED <<setupVars, serverVars>>

\* Lines 19-30: res.json() settles; on success setResponse, then finally.
JsonSettles(i) ==
    /\ calls[i].pc = "json"
    /\ \/ \E p \in Payloads :
            /\ response' = <<p>>
            /\ loading' = FALSE
            /\ calls' = [calls EXCEPT ![i].pc = "done", ![i].ends = @ + 1,
                                      ![i].outcome = "success",
                                      ![i].decoded = TRUE,
                                      ![i].value = <<p>>]
            /\ UNCHANGED error
       \/ Fail(i, calls[i].status, SyntaxError)
    /\ UNCHANGED <<setupVars, serverVars>>

InitClient == SetupIdle /\ ServerOff /\ ClientInit

NextClient ==
    \/ \E i \in Calls : Click(i)
    \/ \E i \in Calls : FetchSettles(i)
    \/ \E i \in Calls : JsonSettles(i)

SpecClient == InitClient /\ [][NextClient]_vars

\* The two promises the handler awaits settle: fetch resolves or rejects,
\* and so does res.json().  Nothing makes the user click.
SpecClientFair ==
    /\ SpecClient
    /\ \A i \in Calls :
          WF_vars(FetchSettles(i)) /\ WF_vars(JsonSettles(i))

\* handleTestServer run whatever the button shows: the handler itself has
\* no guard (lines 8-13), only the button has one (line 40).
NextClientUnguarded ==
    \/ \E i \in Calls : Invoke(i)
    \/ \E i \in Calls : FetchSettles(i)
    \/ \E i \in Calls : JsonSettles(i)

SpecClientUnguarded == InitClient /\ [][NextClientUnguarded]_vars

SpecClientUnguardedFair ==
    /\ SpecClientUnguarded
    /\ \A i \in Calls :
          WF_vars(FetchSettles(i)) /\ WF_vars(JsonSettles(i))

----------------------------------------------------------------------------
\* Vocabulary of the properties

Range(q) == { q[i] : i \in 1..Len(q) }

Exited == ~Running

\* The commands of the trace that reach out of, or change, the machine.
EffectsRun == { e \in Range(trace) : e.cmd \in RemoteCmds \cup LocalWrites }

RemoteRun == { e \in Range(trace) : e.cmd \in RemoteCmds }

PromptsShown == { e \in Range(trace) : e.cmd = "read" }

AskedGitHub == <<"Have you connected GitHub?">>

AskedNetworking == <<"Have you enabled public networking?">>

\* The operator's answer to question q in the last statement group was no.
AnsweredNo(q) ==
    \E c \in Range(last) : c.cmd = "read" /\ c.arg = q /\ ~c.ok

ErrorLines(q) == { l \in Range(q) : l.sev = "ERROR" }

HasMessage(q, sev, msg) == \E l \in Range(q) : l.sev = sev /\ l.msg = msg

LogFileCreated == TIMESTAMP \in fs.logFiles

\* Statement groups after step 1, after step 2 and after step 5.
AfterStep1 ==
    {"Step2Template", "Step2Read", "Step3Build", "Step3Bundle",
     "Step4Backup", "Step4Auth", "Step4Init", "Step4Link", "Step5Required",
     "Step5Custom", "Step6", "Step7Remote", "Step7Branch", "Step8",
     "Step10", "Step11", "Done"}

AfterStep2 == AfterStep1 \ {"Step2Template", "Step2Read"}

AfterStep5 == {"Step6", "Step7Remote", "Step7Branch", "Step8", "Step10",
               "Step11", "Done"}

----------------------------------------------------------------------------
\* C1: in a session started with --dry-run no mutating or remote command
\* is ever run (no npm install / init / build, no template creation, no
\* backup copy, no railway command, no HTTP probe, no other remote call).
C1_DryRunNoEffects == DRY_RUN => EffectsRun = {}

\* C2: a session started with --dry-run in a directory without .railway
\* ends with exit code 0, its log file exists and it made no remote call.
C2_DryRunExitsZero ==
    (argv = <<"--dry-run">> /\ ~start.railway /\ Exited)
        => (exitCode = 0 /\ LogFileCreated /\ RemoteRun = {})

\* C3 as stated, for a session in normal mode: with .railway present at
\* the start the session exits 1
\* having shown no prompt and run no command, and the error log holds the
\* message about the existing Railway project.
C3_ExistingProjectOriginal ==
    (start.railway /\ argv = <<>> /\ Exited)
        => /\ exitCode = 1
           /\ trace = <<>>
           /\ HasMessage(wrote.err, "ERROR", "Railway project already exists!")

\* C3 as amended: with .railway present at the start the session never
\* gets past the existing-project check of step 1 and exits with code 1;
\* nothing is installed, read, built or sent to Railway, the only prompt
\* that can be shown is the Node version "Continue anyway?", and a session
\* that gets as far as the existing-project check writes the message about
\* the existing Railway project to both logs.
C3_ExistingProjectStops ==
    start.railway
        => /\ pc \notin AfterStep1 \cup {"Step1Cli", "Step1Deps"}
           /\ EffectsRun = {}
           /\ \A e \in PromptsShown : e.arg = <<"Continue anyway?">>
           /\ Exited => exitCode = 1
           /\ (Exited /\ pc = "Step1Project")
                => /\ HasMessage(wrote.err, "ERROR",
                                 "Railway project already exists!")
                   /\ HasMessage(wrote.log, "ERROR",
                                 "Railway project already exists!")

C3_Witness ==
    /\ start.railway /\ Exited /\ pc = "Step1Project"
    /\ PromptsShown # {}

\* C4: a finished run has exit code 0 or 1; it is 0 exactly when the
\* session reached Done or the operator said no at one of the two manual
\* steps; it is 1 for an unknown flag in any position and for every fatal
\* failure (every exit that wrote an error line or followed a failed
\* command of steps 1-4 and 7).
UnknownFlag == \E i \in 1..Len(argv) : argv[i] # "--dry-run"

C4_ExitCodes ==
    Exited
        => /\ exitCode \in {0, 1}
           /\ exitCode = 0 <=> \/ pc = "Done"
                               \/ AnsweredNo(AskedGitHub)
                               \/ AnsweredNo(AskedNetworking)
           /\ UnknownFlag => exitCode = 1
           /\ wrote.err # <<>> => exitCode = 1

C4_Witness == Exited /\ AnsweredNo(AskedNetworking) /\ exitCode = 0

\* C5 as stated: whenever the script ends with a non-zero code an error
\* line was written to both logs.
C5_ErrorLoggedOriginal ==
    (Exited /\ exitCode # 0)
        => ErrorLines(wrote.log) # {} /\ ErrorLines(wrote.err) # {}

\* Exits that only the shell decides: the unknown flag (line 34) and the
\* commands that set -e catches (lines 104 and 207).
ShellExits == {"ParseArgs", "Banner", "Step2Read"}

\* C5 as amended: whenever the script ends with a non-zero code at a fatal
\* condition it tests itself (error_exit, the two exits of step 7), the
\* same error lines are in the session log and the error log, and the
\* command that failed or the answer that was no is the last thing the
\* session ran; an unknown flag, and a failure only set -e catches, end the
\* script with code 1 and no error line.
C5_ErrorLogged ==
    (Exited /\ exitCode # 0)
        => IF pc \in ShellExits
           THEN wrote.err = <<>>
           ELSE /\ ErrorLines(wrote.log) # {}
                /\ ErrorLines(wrote.log) = ErrorLines(wrote.err)
                /\ Range(wrote.err) = ErrorLines(wrote.err)
                /\ last # <<>> => ~last[Len(last)].ok

C5_Witness ==
    /\ Exited /\ exitCode = 1 /\ pc = "Step4Link"
    /\ HasMessage(wrote.err, "ERROR", "Railway link failed")

\* C6: in a session without --dry-run an answer other than y at the
\* GitHub prompt or at the public-networking prompt ends the session with
\* exit code 0 after the resume instructions were logged, and nothing of
\* the later steps has run: no source verification after a no at step 6,
\* no URL retrieval, health probe or NO_CACHE removal after either.
LaterCmds ==
    {"railway domain", "curl", "railway variables --unset"}

C6_NoPauses ==
    /\ AnsweredNo(AskedGitHub)
        => /\ exitCode = 0 /\ pc = "Step6"
           /\ HasMessage(wrote.log, "WARNING",
                         "Setup paused. Connect GitHub, then re-run.")
           /\ \A e \in Range(trace) :
                e.cmd \notin LaterCmds \cup {"git ls-remote"}
           /\ AskedNetworking \notin { e.arg : e \in PromptsShown }
    /\ AnsweredNo(AskedNetworking)
        => /\ exitCode = 0 /\ pc = "Step8"
           /\ HasMessage(wrote.log, "WARNING",
                         "Enable public networking to continue.")
           /\ \A e \in Range(trace) : e.cmd \notin LaterCmds

C6_Witness ==
    /\ ~DRY_RUN /\ Exited /\ AnsweredNo(AskedNetworking)
    /\ \E e \in Range(trace) : e.cmd = "git ls-remote"

\* C7: a second invocation after a run that paused at a manual step (the
\* project having been created and linked) is not stopped by the
\* existing-project check of step 1.
C7_RerunNotStopped ==
    prev => ~(Exited /\ pc = "Step1Project")

\* A line that is neither blank, nor a comment, nor KEY=VALUE.
Blank(line) == \A j \in 1..Len(line) : line[j] \in Space

KeyValue(line) == Len(line) = 3 /\ line[2] = "="

Malformed(f) ==
    /\ f.exists
    /\ \E l \in Range(f.lines) \cup {f.tail} :
        ~Blank(l) /\ ~IsCommentLine(l) /\ ~KeyValue(l)

DefaultEntries ==
    << <<"NODE_ENV", "=", "production">>, <<"PORT", "=", "3333">> >>

C9_BlankAndCommentSkipped ==
    /\ \A v \in Range(ENV_VARS) : ~Blank(v) /\ ~IsCommentLine(v)
    /\ \A e \in Range(trace) :
        e.cmd = "railway variables --set"
            => ~Blank(e.arg) /\ ~IsCommentLine(e.arg)

\* C10: in a session without --dry-run that is past step 5, railway
\* variables --set was attempted for every element of ENV_VARS and for
\* every required variable.
Attempted(var) ==
    \E e \in Range(trace) : e.cmd = "railway variables --set" /\ e.arg = var

C10_AllVariablesPushed ==
    (~DRY_RUN /\ pc \in AfterStep5)
        => \A v \in Range(ENV_VARS) \cup Range(REQUIRED_VARS) : Attempted(v)

----------------------------------------------------------------------------
\* The failures that are answered with a warning: the command whose outcome
\* decides, the outcome that counts as the failure, and the warning.
SoftFailures ==
    { [cmd |-> "railway variables --set", ok |-> FALSE,
       msg |-> "Failed to set"],
      [cmd |-> "test -gt", ok |-> TRUE,
       msg |-> "Bundle size is large (> 5MB)"],
      [cmd |-> "railway domain", ok |-> FALSE,
       msg |-> "Could not retrieve deployment URL"],
      [cmd |-> "curl", ok |-> FALSE, msg |-> "Health check failed."],
      [cmd |-> "railway variables --unset", ok |-> FALSE,
       msg |-> "Could not remove NO_CACHE"] }

SoftFailed(c) == \E s \in SoftFailures : s.cmd = c.cmd /\ s.ok = c.ok

WarningFor(c) == (CHOOSE s \in SoftFailures : s.cmd = c.cmd).msg

WarnSteps ==
    {"Step3Bundle", "Step5Required", "Step5Custom", "Step10", "Step11"}

\* Sessions in a checkout with no template, the repository's own or one
\* custom variable.  bash runs the statement groups one after the other and
\* every command of the script returns (the operator answers each prompt),
\* so a running session always takes its next step.
InitFair ==
    /\ Init
    /\ fs.template \in {Absent, DefaultTemplate,
                         File(<< <<"API_KEY", "=", "abc">> >>, <<>>)}

SpecFair == InitFair /\ [][Next]_vars /\ WF_vars(Next)

\* The statement group that met one of the failures logged its warning,
\* wrote no error line and did not exit with an error; no session ends in
\* one of the steps that only warn, and past the second confirmation the
\* only way out is Done with exit code 0.
WarnedOnly ==
    /\ \A i \in 1..Len(last) :
          SoftFailed(last[i]) =>
            /\ HasMessage(wrote.log, "WARNING", WarningFor(last[i]))
            /\ wrote.err = <<>>
            /\ Running \/ (pc = "Done" /\ exitCode = 0)
    /\ Exited => pc \notin WarnSteps
    /\ pc \in {"Step10", "Step11", "Done"} /\ Exited =>
          pc = "Done" /\ exitCode = 0

\* How a session that reached step 5 may end: at Done with exit code 0, at
\* a confirmation answered no, or at the source verification of step 7.
EndsAsAllowed ==
    /\ Exited
    /\ \/ pc = "Done" /\ exitCode = 0
       \/ pc \in {"Step6", "Step8"} /\ exitCode = PauseExit
       \/ pc \in {"Step7Remote", "Step7Branch"} /\ exitCode = FatalExit

\* C11: a failed railway variables --set, a build output over the
\* threshold, a deployment URL that cannot be retrieved, a failed /health
\* probe and a failed railway variables --unset NO_CACHE are each answered
\* with a warning and nothing else; the size check is always followed by
\* step 4, a session without --dry-run that starts step 5 ends only at a
\* declined confirmation, at a failed source verification or at Done, and
\* one that passed the second confirmation reaches Done and exits 0.
C11_WarnAndContinue ==
    /\ []WarnedOnly
    /\ (Running /\ pc = "Step3Bundle") ~> (Running /\ pc = "Step4Backup")
    /\ (Running /\ ~DRY_RUN /\ pc = "Step5Required") ~> EndsAsAllowed
    /\ (Running /\ ~DRY_RUN /\ pc = "Step10") ~> (pc = "Done" /\ exitCode = 0)

C11_Witness ==
    /\ ~DRY_RUN /\ pc = "Done" /\ exitCode = 0
    /\ DEPLOY_URL = <<>>
    /\ \E i \in 1..Len(last) :
          last[i].cmd = "railway variables --unset" /\ ~last[i].ok
    /\ \E e \in Range(trace) : e.cmd = "railway variables --set"
    /\ HasMessage(wrote.log, "SUCCESS", "Setup completed at")

----------------------------------------------------------------------------
SourceChecks == {"git remote get-url", "git ls-remote"}

Remediation ==
    {"git remote add origin", "git push -u origin main",
     "Push your code: git push -u origin"}

PastStep7 == {"Step8", "Step10", "Step11", "Done"}

\* C12: once the step-6 confirmation is passed, a missing origin remote or
\* a branch that is not on the remote ends the session with exit code 1 in
\* the statement group that found it, with an error line in both logs and
\* the remediation instructions in the session log, and the networking
\* prompt, the URL retrieval, the health probe and the NO_CACHE removal
\* have not happened; when a check passes the session runs on (to the
\* branch check, then to step 8), and step 8 and later are reached only
\* after git ls-remote was run.
C12_SourceVerification ==
    /\ \A i \in 1..Len(last) :
          (last[i].cmd \in SourceChecks /\ ~last[i].ok) =>
            /\ exitCode = FatalExit /\ exitCode # 0
            /\ ErrorLines(wrote.log) # {}
            /\ ErrorLines(wrote.err) = ErrorLines(wrote.log)
            /\ \E l \in Range(wrote.log) :
                 l.sev = "INFO" /\ l.msg \in Remediation
            /\ AskedNetworking \notin { e.arg : e \in PromptsShown }
            /\ ~HasMessage(wrote.log, "STEP",
                           "Step 8: Enable Public Networking")
            /\ \A e \in Range(trace) : e.cmd \notin LaterCmds
    /\ \A i \in 1..Len(last) :
          (last[i].cmd = "git remote get-url" /\ last[i].ok) =>
            Running /\ pc = "Step7Branch"
    /\ \A i \in 1..Len(last) :
          (last[i].cmd = "git ls-remote" /\ last[i].ok) =>
            Running /\ pc = "Step8"
    /\ pc \in {"Step7Remote", "Step7Branch"} /\ Exited =>
          /\ exitCode = FatalExit
          /\ \E i \in 1..Len(last) :
               last[i].cmd \in SourceChecks /\ ~last[i].ok
    /\ pc \in PastStep7 =>
          \E e \in Range(trace) : e.cmd = "git ls-remote"

C12_Witness ==
    /\ Exited /\ pc = "Step7Branch" /\ exitCode = FatalExit
    /\ \E i \in 1..Len(last) : last[i].cmd = "git ls-remote" /\ ~last[i].ok
    /\ \E e \in PromptsShown : e.arg = AskedGitHub

----------------------------------------------------------------------------
IsErrorLine(l) == l.sev = "ERROR"

\* C13: what a statement group appends to the error log is exactly the
\* error-severity lines it appends to the session log, in the same order;
\* info, success, warning, step and command-output lines go to the session
\* log only.  Both files are only ever appended to, so the error log is at
\* every point the subsequence of error lines of the session log.
C13_ErrorLogMirrors ==
    /\ wrote.err = SelectSeq(wrote.log, IsErrorLine)
    /\ \A l \in Range(wrote.err) : l.sev = "ERROR"
    /\ (TIMESTAMP \in fs.errFiles /\ TIMESTAMP \notin start.errFiles)
          => TIMESTAMP \in fs.logFiles

C13_Witness ==
    /\ Exited /\ pc = "Step7Remote"
    /\ Len(wrote.err) = 1 /\ Len(wrote.log) > 1
    /\ HasMessage(wrote.log, "WARNING", "No GitHub remote found")
    /\ HasMessage(wrote.err, "ERROR", "GitHub remote is required")

----------------------------------------------------------------------------
\* C14: no invocation appends to a session log or an error log that an
\* earlier invocation in the same directory has written: the file names of
\* two invocations differ.
C14_LogFilePerSession ==
    /\ TIMESTAMP \in start.logFiles => wrote.log = <<>>
    /\ TIMESTAMP \in start.errFiles => wrote.err = <<>>

----------------------------------------------------------------------------
Pushed == { e.arg : e \in { x \in Range(trace) :
                              x.cmd = "railway variables --set" } }

\* C15: within one session no key is passed to railway variables --set
\* with two different values, whatever the template holds, and NODE_ENV
\* is only ever set to production.
C15_OneValuePerKey ==
    /\ \A v, w \in Pushed :
          (KeyValue(v) /\ KeyValue(w) /\ v[1] = w[1]) => v = w
    /\ \A v \in Pushed :
          (KeyValue(v) /\ v[1] = "NODE_ENV") => v[3] = "production"

----------------------------------------------------------------------------
\* Requests the server has answered

Answered == res.by # "none"

ApiPaths == {"/health", "/api/hello"}

\* C16: whatever process.env.NODE_ENV is, the answer to GET /health comes
\* from the health handler (also in production, where client/dist holds a
\* file of that name), has status 200 and the body {status: "ok",
\* timestamp: an ISO-8601 instant not after now, env: the environment tag},
\* the tag being development when the variable is unset or empty.
C16_HealthAlways ==
    (Answered /\ res.path = "/health") =>
        /\ res.by = "health"
        /\ res.status = 200
        /\ DOMAIN res.body = {"status", "timestamp", "env"}
        /\ res.body.status = "ok"
        /\ res.body.timestamp \in { toISOString(t) : t \in 0..clock }
        /\ processEnv \in {Unset, ""} => res.body.env = "development"
        /\ processEnv \notin {Unset, ""} => res.body.env = processEnv

C16_Witness ==
    /\ processEnv = "production" /\ "/health" \in DistFiles
    /\ res.path = "/health" /\ res.by = "health" /\ served >= 2

\* The step that answers a request for /api/hello.
HelloAnswered(c) ==
    /\ sockets[c].state = "active" /\ sockets[c].path = "/api/hello"
    /\ sockets'[c].state # "active"

C18_StaticOnlyInProduction ==
    /\ res.by \in {"express.static", "sendFile"} => processEnv = "production"
    /\ (Answered /\ res.path \notin ApiPaths /\ processEnv = "production") =>
          /\ res.status = 200
          /\ IF StaticFile(res.path) \in DistFiles
             THEN res.by = "express.static"
                  /\ res.body = [file |-> StaticFile(res.path)]
             ELSE res.by = "sendFile" /\ res.body = [file |-> "/index.html"]
    /\ (Answered /\ res.path \notin ApiPaths /\ processEnv # "production") =>
          /\ res.by = "finalhandler" /\ res.status = 404
          /\ res.body # [file |-> "/index.html"]

C18_Witness ==
    /\ processEnv = "production"
    /\ res.path = "/dashboard" /\ res.by = "sendFile"

\* C19: the process exits only with status 0, only after a signal and only
\* when no connection is open; once a signal was delivered no connection
\* is accepted, a connection with a request in flight stays as it is until
\* that request is answered, and the step that exits starts with every
\* connection closed.
C19_GracefulShutdown ==
    /\ [](exitStatus # -1 =>
            /\ exitStatus = 0 /\ signals > 0
            /\ \A c \in Conns : ~Open(c))
    /\ [][/\ signals > 0 =>
              \A c \in Conns :
                sockets[c].state = "none" => sockets'[c].state = "none"
          /\ \A c \in Conns :
                (sockets[c].state = "active" /\ sockets'[c] # sockets[c])
                  => served' = served + 1 /\ res'.path = sockets[c].path
          /\ exitStatus' # exitStatus => \A c \in Conns : ~Open(c)]_vars

C19_Witness ==
    /\ srv = "closing" /\ exitStatus = -1 /\ signals = 1
    /\ \E c \in Conns : sockets[c].state = "active"
    /\ \E c \in Conns : sockets[c].state = "none"

----------------------------------------------------------------------------
Pending(i) == calls[i].pc \in {"fetch", "json"}

Ends(i) == calls[i].pc # "done" /\ calls'[i].pc = "done"

\* C20: every invocation of handleTestServer issues exactly one request
\* and sets loading; it ends at most once, as a success exactly when the
\* status was 2xx and the body decoded, otherwise as a failure; the step
\* that ends it clears loading and either stores the decoded payload in
\* response or stores a message in error and leaves response as it was;
\* nothing else ends an invocation (no exception leaves the handler), and
\* every invocation that was started ends, with loading cleared.
C20_OneOutcomePerCall ==
    /\ \A i \in Calls : Pending(i) ~> (calls[i].pc = "done" /\ ~loading)
    /\ [](\A i \in Calls :
            /\ calls[i].fetches = (IF calls[i].pc = "idle" THEN 0 ELSE 1)
            /\ calls[i].ends = (IF calls[i].pc = "done" THEN 1 ELSE 0)
            /\ calls[i].pc = "done" =>
                  /\ calls[i].outcome \in {"success", "failure"}
                  /\ calls[i].outcome = "success" <=>
                        /\ calls[i].status \in 200..299
                        /\ calls[i].decoded)
    /\ []((\A i \in Calls : ~Pending(i)) => ~loading)
    /\ [][\A i \in Calls :
            /\ (calls[i].pc = "idle" /\ calls'[i].pc # "idle") =>
                  loading' /\ calls'[i].pc = "fetch"
            /\ Ends(i) =>
                  /\ ~loading'
                  /\ IF calls'[i].outcome = "success"
                     THEN response' = calls'[i].value /\ response' # Null
                          /\ error' = error
                     ELSE error' = calls'[i].value /\ error' # Null
                          /\ response' = response]_vars

C20_Witness ==
    /\ calls[1].pc = "done" /\ calls[1].outcome = "success"
    /\ calls[2].pc = "done" /\ calls[2].outcome = "failure"
    /\ calls[2].status = 201
    /\ response # Null /\ error # Null /\ ~loading

----------------------------------------------------------------------------
InFlight == { i \in Calls : Pending(i) }

\* Every invocation so far was a click on the enabled button.
ButtonRespected == \A i \in Calls : calls[i].pc # "idle" => calls[i].enabled

\* C21: also when handleTestServer runs while an earlier invocation is
\* pending, every invocation ends exactly once (a step ends at most one
\* invocation, an ended invocation never changes again, every started one
\* ends), and whenever no invocation is pending loading is false; as long
\* as every invocation was a click on the enabled button, at most one
\* request is in flight and loading is true exactly while one is.
C21_ConcurrentClicks ==
    /\ \A i \in Calls : Pending(i) ~> (calls[i].pc = "done")
    /\ [](\A i \in Calls :
            calls[i].ends = (IF calls[i].pc = "done" THEN 1 ELSE 0))
    /\ [](InFlight = {} => ~loading)
    /\ [](ButtonRespected =>
            /\ Cardinality(InFlight) <= 1
            /\ loading <=> InFlight # {})
    /\ [][/\ Cardinality({ i \in Calls : Ends(i) }) <= 1
          /\ \A i \in Calls :
                calls[i].pc = "done" => calls'[i] = calls[i]]_vars

\* The second invocation started while the first was pending; the first
\* has ended and cleared loading while the second is still in flight.
C21_Witness ==
    /\ calls[1].pc = "done"
    /\ Pending(2) /\ ~calls[2].enabled
    /\ ~loading

----------------------------------------------------------------------------
\* Statement groups of deployment monitoring and verification (steps 9-11).
Monitoring == {"Step10", "Step11", "Done"}

\* C22: a session without --dry-run that has passed both confirmations and
\* has got to deployment monitoring has run git push for the current
\* branch.
C22_PushesToGitHub ==
    (~DRY_RUN /\ pc \in Monitoring)
        => \E e \in Range(trace) : e.cmd = "git push"

----------------------------------------------------------------------------
ProjectCmds == {"railway init", "railway link"}

BackupMade == TIMESTAMP \in fs.backups

\* C23: a session without --dry-run that is started in a directory with a
\* .railway directory has copied it to .railway.backup.<TIMESTAMP> by the
\* time it ends, and in every session without --dry-run railway init and
\* railway link run against an existing .railway only after that copy was
\* made.
C23_BackupBeforeChange ==
    /\ (~DRY_RUN /\ start.railway /\ Exited /\ pc # "ParseArgs")
          => BackupMade
    /\ (~DRY_RUN /\ start.railway
          /\ \E e \in Range(trace) : e.cmd \in ProjectCmds)
          => BackupMade

----------------------------------------------------------------------------
\* The commands whose failure is fatal in steps 3 and 4.
GateCmds == {"npm run build", "railway login", "railway init", "railway link"}

\* Command a runs somewhere before position k of the trace.
RanBefore(a, k) == \E j \in 1..(k - 1) : trace[j].cmd = a

\* Whether the statement group at p, having run cmds, may hand over to the
\* next one: its command succeeded (for the authentication, whoami or login).
Passed(p, cmds) ==
    CASE p = "Step3Build" ->
            \E c \in Range(cmds) : c.cmd = "npm run build" /\ c.ok
      [] p = "Step4Auth" ->
            \E c \in Range(cmds) :
                c.cmd \in {"railway whoami", "railway login"} /\ c.ok
      [] p = "Step4Init" ->
            \E c \in Range(cmds) : c.cmd = "railway init" /\ c.ok
      [] p = "Step4Link" ->
            \E c \in Range(cmds) : c.cmd = "railway link" /\ c.ok
      [] OTHER -> TRUE

\* C24: in a session without --dry-run the build, the authentication,
\* railway init, railway link and the railway variables --set calls run in
\* this order; a failed build, login, init or link ends the session on the
\* spot with exit code 1, and the session leaves each of these statement
\* groups only when its command succeeded, so railway init runs only after
\* a successful build and a successful whoami or login, railway link only
\* after a successful init, and railway variables --set only after a
\* successful link.
C24_GatedOrder ==
    /\ [](~DRY_RUN =>
            /\ \A i \in 1..Len(last) :
                  (last[i].cmd \in GateCmds /\ ~last[i].ok)
                      => Exited /\ exitCode = FatalExit /\ exitCode = 1
            /\ \A k \in 1..Len(trace) :
                  /\ trace[k].cmd = "railway login"
                        => RanBefore("railway whoami", k)
                  /\ trace[k].cmd = "railway init"
                        => /\ RanBefore("npm run build", k)
                           /\ RanBefore("railway whoami", k)
                  /\ trace[k].cmd = "railway link"
                        => RanBefore("railway init", k)
                  /\ trace[k].cmd = "railway variables --set"
                        => RanBefore("railway link", k))
    /\ [][(~DRY_RUN /\ pc' # pc) => Passed(pc, last')]_vars

\* Logged in on the spot, created, linked, and the first variable is set.
C24_Witness ==
    /\ ~DRY_RUN /\ Running
    /\ \E e \in Range(trace) : e.cmd = "railway login"
    /\ \E i \in 1..Len(last) : last[i].cmd = "railway variables --set"

----------------------------------------------------------------------------
\* Question q is put to the operator at position k of the trace.
AskedAt(q, k) == trace[k].cmd = "read" /\ trace[k].arg = q

\* Whether the statement group at p of steps 6-8, having run cmds, may hand
\* over to the next one: the operator said yes, the check passed.
Cleared(p, cmds) ==
    CASE p = "Step6" ->
            \E c \in Range(cmds) :
                c.cmd = "read" /\ c.arg = AskedGitHub /\ c.ok
      [] p = "Step7Remote" ->
            \E c \in Range(cmds) : c.cmd = "git remote get-url" /\ c.ok
      [] p = "Step7Branch" ->
            \E c \in Range(cmds) : c.cmd = "git ls-remote" /\ c.ok
      [] p = "Step8" ->
            \E c \in Range(cmds) :
                c.cmd = "read" /\ c.arg = AskedNetworking /\ c.ok
      [] OTHER -> TRUE

----------------------------------------------------------------------------
Signalled == signals > 0

Exits == exitStatus = -1 /\ exitStatus' # -1

\* C26: once a signal was delivered and every connection has ended the
\* process exits, with status 0; as long as a connection is open the
\* process has not exited and cannot exit (the 'close' callback cannot
\* run); before a signal it never exits; a signal, the first or a later
\* one, neither ends the process nor touches a connection with a request in
\* flight, it only registers one more callback; and the process exits in
\* no step other than the 'close' callback with every connection closed.
C26_NoForcedTermination ==
    /\ (Signalled /\ Drained) ~> (exitStatus = 0)
    /\ [](exitStatus \in {-1, 0})
    /\ [](~Signalled => exitStatus = -1)
    /\ []((\E c \in Conns : Open(c)) =>
            exitStatus = -1 /\ ~ENABLED ServerClosed)
    /\ [][signals' # signals =>
            /\ exitStatus' = -1 /\ srv' = "closing"
            /\ closeListeners' = closeListeners + 1
            /\ \A c \in Conns :
                  sockets[c].state = "active" => sockets'[c] = sockets[c]]_vars
    /\ [][Exits => Signalled /\ Drained /\ exitStatus' = 0
                   /\ sockets' = sockets]_vars

\* A second signal has arrived while a request is in flight: the process
\* is still there.
C26_Witness ==
    /\ signals = 2 /\ exitStatus = -1 /\ closeListeners = 2
    /\ \E c \in Conns : sockets[c].state = "active"

----------------------------------------------------------------------------
\* Positions of the trace at which railway variables --set is run for key.
SetsOf(key) ==
    { k \in 1..Len(trace) :
        trace[k].cmd = "railway variables --set"
            /\ HasPrefix(trace[k].arg, key) }

\* KEY=VALUE as the session pushed it last, <<>> when it pushed none.
LastPushed(key) ==
    IF SetsOf(key) = {} THEN <<>>
    ELSE trace[CHOOSE k \in SetsOf(key) : \A j \in SetsOf(key) : j <= k].arg

Unsets ==
    { k \in 1..Len(trace) : trace[k].cmd = "railway variables --unset" }

\* Exits after step 5 and before the cleanup.
EarlyExits == {"Step6", "Step7Remote", "Step7Branch", "Step8"}

\* The cleanup side of C27: railway variables --unset NO_CACHE runs at most
\* once, in step 11 only, after NO_CACHE=1 was pushed, both questions were
\* put and git ls-remote had run.
UnsetOnlyInStep11 ==
    ~DRY_RUN =>
        /\ Cardinality(Unsets) <= 1
        /\ \A k \in Unsets :
              /\ pc = "Done" /\ k = Len(trace)
              /\ trace[k].arg = <<"NO_CACHE">>
              /\ \E j \in SetsOf("NO_CACHE") :
                    j < k /\ trace[j].arg = <<"NO_CACHE", "=", "1">>
              /\ \E j \in 1..(k - 1) : AskedAt(AskedGitHub, j)
              /\ \E j \in 1..(k - 1) : AskedAt(AskedNetworking, j)
              /\ RanBefore("git ls-remote", k)

\* C27: in a session without --dry-run the NO_CACHE removal runs at most
\* once and only in step 11, and a session that ends at step 6, 7 or 8 has
\* run no removal and leaves NO_CACHE=1 as the value it pushed last.
C27_NoCacheCleanup ==
    /\ UnsetOnlyInStep11
    /\ (~DRY_RUN /\ Exited /\ pc \in EarlyExits)
          => /\ Unsets = {}
             /\ LastPushed("NO_CACHE") = <<"NO_CACHE", "=", "1">>

----------------------------------------------------------------------------
\* Every line of a file, the text after the last newline included.
AllLines(f) == f.lines \o (IF f.tail = <<>> THEN <<>> ELSE <<f.tail>>)

\* The lines of the template that are non-empty and not comments, in file
\* order.
Wanted(f) == SelectSeq(AllLines(f), Collected)

\* C28: once the read loop has run, ENV_VARS holds exactly the non-empty,
\* non-comment lines of server/.env.example, each once and in file order,
\* the last line of a file without a final newline included, and the
\* logged count is their number.
C28_ReadLoopCollects ==
    (pc \in AfterStep2 /\ fs.template.exists)
        => /\ ENV_VARS = Wanted(fs.template)
           /\ (Running /\ pc = "Step3Build")
                => \E l \in Range(wrote.log) :
                     /\ l.msg = "Found N environment variable(s) to set"
                     /\ l.arg = <<Numeral(Len(Wanted(fs.template)))>>

----------------------------------------------------------------------------
Started == { i \in Calls : calls[i].pc # "idle" }

Succeeded ==
    { i \in Calls : calls[i].pc = "done" /\ calls[i].outcome = "success" }

\* The most recent invocation of a non-empty set of invocations.
Latest(S) == CHOOSE i \in S : \A j \in S : j <= i

\* Lines 46 and 55: a panel is rendered when its state is not null.
ResponsePanel == response # Null

ErrorPanel == error # Null

\* C29: with the clicks the button accepts, response is the payload of the
\* most recent call that succeeded (null if none did) and error is the
\* message of the most recent call if that call has failed (null
\* otherwise); the step that starts a call clears error and leaves
\* response, the step in which a call fails leaves response; so after a
\* success followed by a failure both panels are rendered.
C29_ResponseAndError ==
    /\ [](response = IF Succeeded = {} THEN Null
                     ELSE calls[Latest(Succeeded)].value)
    /\ [](error = IF /\ Started # {}
                     /\ calls[Latest(Started)].pc = "done"
                     /\ calls[Latest(Started)].outcome = "failure"
                  THEN calls[Latest(Started)].value
                  ELSE Null)
    /\ [](\A i, j \in Calls :
            (/\ i < j /\ i \in Succeeded
             /\ calls[j].pc = "done" /\ calls[j].outcome = "failure"
             /\ j = Latest(Started))
                => ResponsePanel /\ ErrorPanel)
    /\ [][\A i \in Calls :
            /\ (calls[i].pc = "idle" /\ calls'[i].pc # "idle")
                  => error' = Null /\ response' = response
            /\ (Ends(i) /\ calls'[i].outcome = "failure")
                  => response' = response]_vars

\* The first call succeeded, the second could not reach the server.
C29_Witness ==
    /\ Succeeded = {1}
    /\ calls[2].pc = "done" /\ calls[2].status = 0
    /\ response = calls[1].value /\ error = <<FailedToFetch>>
    /\ ResponsePanel /\ ErrorPanel

----------------------------------------------------------------------------
\* The script was ended by set -e in the log call of the banner.
LogCallFailed == Exited /\ pc = "Banner" /\ exitCode = ErrexitStatus

\* C30: in every run, with or without --dry-run and whether or not logs/
\* exists at the start, a statement group appends to the logs only when
\* logs/ exists, and no run is ended by a log call that cannot open its
\* file.
C30_LogDirBeforeLogging ==
    /\ (wrote.log # <<>> \/ wrote.err # <<>>) => fs.logsDir
    /\ ~LogCallFailed

====
